---- MODULE Spec2Model ----
(***************************************************************************)
(* Model of the chemical record keeper (src/app.py): the SQLite tables     *)
(* chemicals, requests, issued and notifications, and the handlers that    *)
(* read and write them: create_request, update_request_status,             *)
(* adjust_stock, upload_master_from_excel, the deletion of the master      *)
(* list, push_notification and mark_notifications_seen.                    *)
(*                                                                         *)
(* Quantities are REAL columns in the source; the model counts them in     *)
(* whole units, so float rounding is outside the model.  The columns       *)
(* serial_no, unit, cas_no and note are written once and never read by a   *)
(* handler; they are left out of the rows.                                 *)
(***************************************************************************)
EXTENDS Integers, Sequences, FiniteSets, TLC

(* ------------------------------ bounds --------------------------------- *)
\* units of each chemical on an imported master list
MaxQty == 2
\* largest requested amount (amounts are 1..MaxAmount)
MaxAmount == 2
\* largest |delta| handed to adjust_stock
MaxDelta == 2
\* cap on a row's remaining and issued_total after adjust_stock
MaxStock == 3
\* number of timed calls in one behaviour (the clock stops there)
MaxClock == 3
\* most rows on an uploaded sheet
MaxRows == 2
\* most ids handed to mark_notifications_seen in one call
MaxIds == 2

Chems == {"HCl", "NaOH"}
UserNames == {"u1", "u2"}
Supervisors == {"sup"}
LabStaff == {"lab"}
Procs == {"p1", "p2"}
\* the four status values of the requests table and the targets callers pass
Statuses == {"Pending", "Approved", "Rejected", "Issued"}
Targets == {"Approved", "Rejected", "Issued", "Pending"}
\* SQL NULL in a TEXT column / Python None
None == "None"
\* recipient of the lab-staff channel
LabChannel == "lab_incharge"

VARIABLES
    chemicals,      \* table chemicals: name -> [total, remaining, issued]
    requests,       \* table requests: sequence, id = index (AUTOINCREMENT)
    issued,         \* table issued: sequence of issuance records
    notifications,  \* table notifications: sequence, id = index
    clock,          \* datetime.utcnow(), as a counter
    last,           \* the call that returned last: its arguments and result
    proc,           \* per session thread: position in its handler and its locals
    imported,       \* history: each row as the master list stored it
    deducted,       \* history: per chemical, sum of the deductions reported ok
    restocked,      \* history: per chemical, sum of the positive deltas reported ok
    logMark         \* history: length of the issuance log at the last import

vars == <<chemicals, requests, issued, notifications, clock, last, proc,
          imported, deducted, restocked, logMark>>

tables == <<chemicals, requests, issued, notifications>>
history == <<imported, deducted, restocked, logMark>>

(* ------------------------------ rows ----------------------------------- *)
ChemRow(total, remaining, issuedTotal) ==
    [total |-> total, remaining |-> remaining, issued |-> issuedTotal]

\* INSERT INTO requests(...) VALUES (?,?,?,?, 'Pending',?,?)
NewRequest(username, chemical, amount, now) ==
    [username |-> username, chemical |-> chemical, amount |-> amount,
     status |-> "Pending", supervisor |-> None, lab_incharge |-> None,
     created_at |-> now, updated_at |-> now]

\* slip: the issued row bound with amount and issued_at in each other's place
NewIssuedSwapped(username, chemical, amount, by, now) ==
    [username |-> username, chemical |-> chemical, amount |-> now,
     issued_by |-> by, issued_at |-> amount]

\* INSERT INTO issued(username,chemical,amount,issued_by,issued_at)
NewIssued(username, chemical, amount, by, now) ==
    [username |-> username, chemical |-> chemical, amount |-> amount,
     issued_by |-> by, issued_at |-> now]

\* the message texts of update_request_status, by their variable parts
Message(kind, rid, by) == [kind |-> kind, rid |-> rid, by |-> by]

\* push_notification: INSERT INTO notifications(recipient,message,created_at);
\* seen takes its column default 0
PushNotification(table, recipient, message, now) ==
    Append(table, [recipient |-> recipient, message |-> message,
                   seen |-> 0, created_at |-> now])

Result(op, args, ok, msg, val) ==
    [op |-> op, args |-> args, ok |-> ok, msg |-> msg, val |-> val]

NoArgs == [rid |-> 0, status |-> None, supervisor |-> None, lab_incharge |-> None,
           username |-> None, chemical |-> None, amount |-> 0, delta |-> 0,
           columns |-> {}, sheet |-> <<>>,
           recipient |-> None, message |-> Message(None, 0, None), ids |-> {}]

(* --------------------------- adjust_stock ------------------------------ *)
\* slip: the second assignment to new_issued (source line 145) taken for every delta
AdjustNewIssuedAlways(issuedTotal, delta) == issuedTotal + (-delta)

\* slip: the floor of the stock check off by one
AdjustInsufficientLax(new_remaining) == new_remaining < -1

\* slip: the UPDATE without its WHERE clause
SetAllRowQuantities(table, chemical_name, new_remaining, new_issued) ==
    [c \in DOMAIN table |->
        [table[c] EXCEPT !.remaining = new_remaining, !.issued = new_issued]]

\* new_remaining = remaining + delta
AdjustNewRemaining(remaining, delta) == remaining + delta

\* new_issued = issued - delta if delta < 0 else issued; if delta < 0: issued + (-delta)
AdjustNewIssued(issuedTotal, delta) ==
    IF delta < 0 THEN issuedTotal + (-delta) ELSE issuedTotal

\* if new_remaining < 0: return False, "Insufficient stock"
AdjustInsufficient(new_remaining) == new_remaining < 0

\* UPDATE chemicals SET amount_remaining=?, issued_total=? WHERE chemical=?
\* (no row of that name: nothing is updated)
SetRowQuantities(table, chemical_name, new_remaining, new_issued) ==
    IF chemical_name \in DOMAIN table
    THEN [table EXCEPT ![chemical_name] =
            [@ EXCEPT !.remaining = new_remaining, !.issued = new_issued]]
    ELSE table

AdjustArgs(chemical_name, delta) ==
    [NoArgs EXCEPT !.chemical = chemical_name, !.delta = delta]

\* the whole of adjust_stock, run without another session in between; it
\* reads no clock, so the clock is left to the specification
AdjustStock(chemical_name, delta) ==
    LET args == AdjustArgs(chemical_name, delta) IN
    IF chemical_name \notin DOMAIN chemicals
    THEN /\ last' = Result("adjust_stock", args, FALSE, "Chemical not found", 0)
         /\ UNCHANGED <<tables, proc, history>>
    ELSE
      LET remaining == chemicals[chemical_name].remaining
          issuedTotal == chemicals[chemical_name].issued
          new_remaining == AdjustNewRemaining(remaining, delta)
          new_issued == AdjustNewIssued(issuedTotal, delta)
      IN
      IF AdjustInsufficient(new_remaining)
      THEN /\ last' = Result("adjust_stock", args, FALSE, "Insufficient stock", 0)
           /\ UNCHANGED <<tables, proc, history>>
      ELSE /\ new_remaining <= MaxStock
           /\ new_issued <= MaxStock
           /\ chemicals' = SetRowQuantities(chemicals, chemical_name,
                                            new_remaining, new_issued)
           /\ last' = Result("adjust_stock", args, TRUE, "ok", new_remaining)
           /\ deducted' = [deducted EXCEPT ![chemical_name] =
                              IF delta < 0 THEN @ + (-delta) ELSE @]
           /\ restocked' = [restocked EXCEPT ![chemical_name] =
                              IF delta > 0 THEN @ + delta ELSE @]
           /\ UNCHANGED <<requests, issued, notifications, proc, imported, logMark>>

(* -------------------------- create_request ----------------------------- *)
\* slip: >= for >
ExceedsStockStrict(amount, amt_remain) == amount >= amt_remain

\* if float(amount) > float(amt_remain): return False, "Requested amount ... exceeds"
ExceedsStock(amount, amt_remain) == amount > amt_remain

CreateArgs(username, chemical, amount) ==
    [NoArgs EXCEPT !.username = username, !.chemical = chemical, !.amount = amount]

CreateRequest(username, chemical, amount) ==
    LET args == CreateArgs(username, chemical, amount)
        now == clock
    IN
    /\ clock < MaxClock
    /\ clock' = clock + 1
    /\ IF /\ chemical \in DOMAIN chemicals
          /\ ExceedsStock(amount, chemicals[chemical].remaining)
       THEN /\ last' = Result("create_request", args, FALSE, "Exceeds remaining stock", 0)
            /\ UNCHANGED requests
       ELSE /\ requests' = Append(requests, NewRequest(username, chemical, amount, now))
            /\ last' = Result("create_request", args, TRUE, "Request created", 0)
    /\ UNCHANGED <<chemicals, issued, notifications, proc, history>>

(* ----------------------- update_request_status ------------------------- *)
\* slip: the stock check off by one
IssueInsufficientOffByOne(amt, remaining) == amt > remaining + 1

\* slip: issued_total left out of the UPDATE
DeductRowForgetIssued(row, amt) == [row EXCEPT !.remaining = @ - amt]

\* slip: the UPDATE of the issue branch sets username where it should set
\* lab_incharge
IssuedRequestAsUser(req, status, lab_incharge, now) ==
    [req EXCEPT !.status = status, !.username = lab_incharge, !.updated_at = now]

\* slip: the push to the lab-staff channel left out
ApprovedNoticesUserOnly(table, rid, req_user, supervisor, now) ==
    Append(table, [recipient |-> req_user,
                   message |-> [kind |-> "APPROVED", rid |-> rid, by |-> supervisor],
                   seen |-> 0, created_at |-> now])

\* slip: the last elif written as else, so that any other target is issued
StatusBranchNoElse(status) ==
    IF status \in {"Approved", "Rejected"} THEN status ELSE "Issued"

\* slip: the body of the issue branch under the Approved test
StatusBranchApproveIssues(status) ==
    IF status \in {"Approved", "Issued"} THEN "Issued"
    ELSE IF status = "Rejected" THEN status ELSE "else"

\* if float(amt) > float(remaining): return False, "Insufficient stock..."
IssueInsufficient(amt, remaining) == amt > remaining

\* UPDATE chemicals SET amount_remaining = amount_remaining - ?,
\*                      issued_total = issued_total + ? WHERE chemical = ?
DeductRow(row, amt) ==
    [row EXCEPT !.remaining = @ - amt, !.issued = @ + amt]

DeductStock(table, chem, amt) ==
    IF chem \in DOMAIN table
    THEN [table EXCEPT ![chem] = DeductRow(@, amt)]
    ELSE table

\* the if / elif / else chain on status: the branch a target value takes
StatusBranch(status) ==
    IF status \in {"Approved", "Rejected", "Issued"} THEN status ELSE "else"

\* UPDATE requests SET status=?, supervisor=?, updated_at=? WHERE id=?
ReviewedRequest(req, status, supervisor, now) ==
    [req EXCEPT !.status = status, !.supervisor = supervisor, !.updated_at = now]

\* UPDATE requests SET status = ?, lab_incharge = ?, updated_at = ? WHERE id = ?
IssuedRequest(req, status, lab_incharge, now) ==
    [req EXCEPT !.status = status, !.lab_incharge = lab_incharge, !.updated_at = now]

\* the notifications of one transition, in the order they are pushed
ApprovedNotices(table, rid, req_user, supervisor, now) ==
    PushNotification(
        PushNotification(table, req_user, Message("APPROVED", rid, supervisor), now),
        LabChannel, Message("approved", rid, supervisor), now)

RejectedNotices(table, rid, req_user, supervisor, now) ==
    PushNotification(table, req_user, Message("REJECTED", rid, supervisor), now)

IssuedNotices(table, rid, req_user, lab_incharge, now) ==
    PushNotification(table, req_user, Message("ISSUED", rid, lab_incharge), now)

StatusArgs(rid, status, supervisor, lab_incharge) ==
    [NoArgs EXCEPT !.rid = rid, !.status = status, !.supervisor = supervisor,
                   !.lab_incharge = lab_incharge]

\* the whole of update_request_status, run without another session in between
UpdateRequestStatus(rid, status, supervisor, lab_incharge) ==
    LET args == StatusArgs(rid, status, supervisor, lab_incharge)
        now == clock
        Fail(msg) ==
            /\ last' = Result("update_request_status", args, FALSE, msg, 0)
            /\ UNCHANGED <<tables, history>>
    IN
    /\ clock < MaxClock
    /\ clock' = clock + 1
    /\ UNCHANGED proc
    /\ IF rid \notin DOMAIN requests
       THEN Fail("Request not found")
       ELSE
         LET req == requests[rid]
             req_user == req.username
             chem == req.chemical
             amt == req.amount
         IN
         CASE StatusBranch(status) = "Approved" ->
                /\ requests' = [requests EXCEPT ![rid] =
                                  ReviewedRequest(@, status, supervisor, now)]
                /\ notifications' =
                      ApprovedNotices(notifications, rid, req_user, supervisor, now)
                /\ last' = Result("update_request_status", args, TRUE, "Approved", 0)
                /\ UNCHANGED <<chemicals, issued, history>>
           [] StatusBranch(status) = "Rejected" ->
                /\ requests' = [requests EXCEPT ![rid] =
                                  ReviewedRequest(@, status, supervisor, now)]
                /\ notifications' =
                      RejectedNotices(notifications, rid, req_user, supervisor, now)
                /\ last' = Result("update_request_status", args, TRUE, "Rejected", 0)
                /\ UNCHANGED <<chemicals, issued, history>>
           [] StatusBranch(status) = "Issued" ->
                IF chem \notin DOMAIN chemicals
                THEN Fail("Chemical not found")
                ELSE IF IssueInsufficient(amt, chemicals[chem].remaining)
                THEN Fail("Insufficient stock")
                ELSE
                  /\ chemicals' = DeductStock(chemicals, chem, amt)
                  /\ requests' = [requests EXCEPT ![rid] =
                                    IssuedRequest(@, status, lab_incharge, now)]
                  /\ issued' = Append(issued,
                                  NewIssued(req_user, chem, amt, lab_incharge, now))
                  /\ notifications' =
                        IssuedNotices(notifications, rid, req_user, lab_incharge, now)
                  /\ last' = Result("update_request_status", args, TRUE, "Issued", 0)
                  /\ deducted' = [deducted EXCEPT ![chem] = @ + amt]
                  /\ UNCHANGED <<imported, restocked, logMark>>
           [] OTHER -> Fail("Unsupported status")

\* setStatus(id, target, actor) as the dashboards pass the actor:
\* supervisor=user for Approve / Reject, lab_incharge=user for Issue
SetStatus(rid, status, actor) ==
    IF status = "Issued"
    THEN UpdateRequestStatus(rid, status, None, actor)
    ELSE UpdateRequestStatus(rid, status, actor, None)

\* who presses the button for a target: a supervisor reviews, lab staff issue
ActorsFor(status) == IF status = "Issued" THEN LabStaff ELSE Supervisors

\* lab_dashboard, "Issue Request": looks the request up and refuses unless its
\* status is Approved; only then does it call update_request_status
LabIssueRefused(rid) ==
    IF rid \notin DOMAIN requests THEN "Request not found."
    ELSE IF requests[rid].status # "Approved"
    THEN "Request is not in Approved state."
    ELSE None

(* ----------------------- sessions in parallel -------------------------- *)
\* Streamlit runs each session's script in a thread of its own, and every
\* handler opens its own connection (get_conn).  sqlite3 runs a SELECT in
\* autocommit and opens a transaction at the first UPDATE / INSERT, which it
\* holds until commit: a handler is a sequence of atomic steps, one per SELECT
\* and one per write transaction, and other sessions run in between.

Returned(p, ok, msg, val) ==
    /\ proc' = [proc EXCEPT ![p].pc = "done"]
    /\ last' = Result(proc[p].op, proc[p].args, ok, msg, val)

\* lab_dashboard: SELECT ... FROM requests WHERE id = ?; status != "Approved"
LabIssueStart(p, rid, user) ==
    /\ proc[p].pc = "idle"
    /\ IF LabIssueRefused(rid) # None
       THEN /\ proc' = [proc EXCEPT ![p].pc = "done"]
            /\ last' = Result("lab_issue", StatusArgs(rid, "Issued", None, user),
                              FALSE, LabIssueRefused(rid), 0)
       ELSE /\ proc' = [proc EXCEPT ![p].pc = "urs_select",
                                    ![p].op = "update_request_status",
                                    ![p].args = StatusArgs(rid, "Issued", None, user)]
            /\ UNCHANGED last
    /\ UNCHANGED <<tables, clock, history>>

\* supervisor_dashboard: Approve / Reject call update_request_status at once
ReviewStart(p, rid, status, supervisor) ==
    /\ proc[p].pc = "idle"
    /\ proc' = [proc EXCEPT ![p].pc = "urs_select",
                            ![p].op = "update_request_status",
                            ![p].args = StatusArgs(rid, status, supervisor, None)]
    /\ UNCHANGED <<tables, clock, last, history>>

\* now = utcnow(); SELECT status, username, chemical, amount FROM requests
UrsSelect(p) ==
    LET rid == proc[p].args.rid
        status == proc[p].args.status
    IN
    /\ proc[p].pc = "urs_select"
    /\ clock' = clock + 1
    /\ UNCHANGED <<tables, history>>
    /\ IF rid \notin DOMAIN requests
       THEN Returned(p, FALSE, "Request not found", 0)
       ELSE IF StatusBranch(status) = "else"
       THEN Returned(p, FALSE, "Unsupported status", 0)
       ELSE /\ proc' = [proc EXCEPT
                          ![p].pc = IF StatusBranch(status) = "Issued" THEN "urs_stock"
                                    ELSE "urs_review",
                          ![p].now = clock,
                          ![p].req_user = requests[rid].username,
                          ![p].chem = requests[rid].chemical,
                          ![p].amt = requests[rid].amount]
            /\ UNCHANGED last

\* UPDATE requests SET status=?, supervisor=?, updated_at=?; commit
UrsReview(p) ==
    /\ proc[p].pc = "urs_review"
    /\ requests' = [requests EXCEPT ![proc[p].args.rid] =
                      ReviewedRequest(@, proc[p].args.status,
                                      proc[p].args.supervisor, proc[p].now)]
    /\ proc' = [proc EXCEPT ![p].pc = "notify_user"]
    /\ UNCHANGED <<chemicals, issued, notifications, clock, last, history>>

\* SELECT amount_remaining FROM chemicals; the two checks on what was read
UrsStock(p) ==
    /\ proc[p].pc = "urs_stock"
    /\ UNCHANGED <<tables, clock, history>>
    /\ IF proc[p].chem \notin DOMAIN chemicals
       THEN Returned(p, FALSE, "Chemical not found", 0)
       ELSE IF IssueInsufficient(proc[p].amt, chemicals[proc[p].chem].remaining)
       THEN Returned(p, FALSE, "Insufficient stock", 0)
       ELSE /\ proc' = [proc EXCEPT ![p].pc = "urs_issue",
                           ![p].remaining = chemicals[proc[p].chem].remaining]
            /\ UNCHANGED last

\* UPDATE chemicals ...; UPDATE requests ...; INSERT INTO issued ...; commit
UrsIssue(p) ==
    /\ proc[p].pc = "urs_issue"
    /\ chemicals' = DeductStock(chemicals, proc[p].chem, proc[p].amt)
    /\ requests' = [requests EXCEPT ![proc[p].args.rid] =
                      IssuedRequest(@, proc[p].args.status,
                                    proc[p].args.lab_incharge, proc[p].now)]
    /\ issued' = Append(issued, NewIssued(proc[p].req_user, proc[p].chem,
                                          proc[p].amt, proc[p].args.lab_incharge,
                                          proc[p].now))
    /\ deducted' = [deducted EXCEPT ![proc[p].chem] = @ + proc[p].amt]
    /\ proc' = [proc EXCEPT ![p].pc = "notify_user"]
    /\ UNCHANGED <<notifications, clock, last, imported, restocked, logMark>>

\* push_notification(req_user, ...), on a connection of its own
UrsNotifyUser(p) ==
    LET rid == proc[p].args.rid
        status == proc[p].args.status
        now == clock
    IN
    /\ proc[p].pc = "notify_user"
    /\ clock' = clock + 1
    /\ UNCHANGED <<chemicals, requests, issued, history>>
    /\ CASE status = "Approved" ->
              /\ notifications' = PushNotification(notifications, proc[p].req_user,
                     Message("APPROVED", rid, proc[p].args.supervisor), now)
              /\ proc' = [proc EXCEPT ![p].pc = "notify_lab"]
              /\ UNCHANGED last
         [] status = "Rejected" ->
              /\ notifications' = PushNotification(notifications, proc[p].req_user,
                     Message("REJECTED", rid, proc[p].args.supervisor), now)
              /\ Returned(p, TRUE, "Rejected", 0)
         [] OTHER ->
              /\ notifications' = PushNotification(notifications, proc[p].req_user,
                     Message("ISSUED", rid, proc[p].args.lab_incharge), now)
              /\ Returned(p, TRUE, "Issued", 0)

\* push_notification("lab_incharge", ...)
UrsNotifyLab(p) ==
    /\ proc[p].pc = "notify_lab"
    /\ clock' = clock + 1
    /\ notifications' = PushNotification(notifications, LabChannel,
           Message("approved", proc[p].args.rid, proc[p].args.supervisor), clock)
    /\ Returned(p, TRUE, "Approved", 0)
    /\ UNCHANGED <<chemicals, requests, issued, history>>

\* adjust_stock: SELECT amount_remaining, issued_total; the checks and the
\* new values computed from what was read
AdjStart(p, chemical_name, delta) ==
    /\ proc[p].pc = "idle"
    /\ UNCHANGED <<tables, clock, history>>
    /\ IF chemical_name \notin DOMAIN chemicals
       THEN /\ proc' = [proc EXCEPT ![p].pc = "done"]
            /\ last' = Result("adjust_stock", AdjustArgs(chemical_name, delta),
                              FALSE, "Chemical not found", 0)
       ELSE
         LET new_remaining ==
                 AdjustNewRemaining(chemicals[chemical_name].remaining, delta)
         IN
         IF AdjustInsufficient(new_remaining)
         THEN /\ proc' = [proc EXCEPT ![p].pc = "done"]
              /\ last' = Result("adjust_stock", AdjustArgs(chemical_name, delta),
                                FALSE, "Insufficient stock", 0)
         ELSE /\ proc' = [proc EXCEPT
                            ![p].pc = "adj_update",
                            ![p].op = "adjust_stock",
                            ![p].args = AdjustArgs(chemical_name, delta),
                            ![p].new_remaining = new_remaining,
                            ![p].new_issued =
                                AdjustNewIssued(chemicals[chemical_name].issued, delta)]
              /\ UNCHANGED last

\* UPDATE chemicals SET amount_remaining=?, issued_total=?; commit
AdjUpdate(p) ==
    LET c == proc[p].args.chemical
        delta == proc[p].args.delta
    IN
    /\ proc[p].pc = "adj_update"
    /\ chemicals' = SetRowQuantities(chemicals, c, proc[p].new_remaining,
                                     proc[p].new_issued)
    /\ deducted' = [deducted EXCEPT ![c] = IF delta < 0 THEN @ + (-delta) ELSE @]
    /\ restocked' = [restocked EXCEPT ![c] = IF delta > 0 THEN @ + delta ELSE @]
    /\ Returned(p, TRUE, "ok", proc[p].new_remaining)
    /\ UNCHANGED <<requests, issued, notifications, clock, imported, logMark>>

(* ---------------------------- master list ------------------------------ *)
\* A sheet is the DataFrame of pd.read_excel: its column headers and its rows.
\* A cell is <<v>>, or <<>> when the cell is empty (NaN).  Of a row the model
\* keeps the cells Names, Quantity, Q.Issued and Q.Remaining.
Required == {"S.NO.", "Names", "Quantity", "Units", "Q.Issued", "Q.Remaining",
             "CAS.No."}

NaN == <<>>

\* pd.isna
IsNa(cell) == cell = NaN

\* str.strip, on the padded texts the sheets of the model hold
Strip(text) ==
    CASE text = " Names " -> "Names"
      [] text = " HCl " -> "HCl"
      [] OTHER -> text

\* slip: any for all in the test of the headers
MissingColumnsAny(columns) ==
    ~(\E col \in Required : col \in {Strip(h) : h \in columns})

\* slip: INSERT OR IGNORE for the upsert, the first row of a name is kept
UpsertRowIgnore(table, name, row) ==
    [c \in DOMAIN table \cup {name} |-> IF c \in DOMAIN table THEN table[c] ELSE row]

\* df.columns = df.columns.str.strip(); not all(col in df.columns for col in required)
MissingColumns(columns) ==
    ~(\A col \in Required : col \in {Strip(h) : h \in columns})

\* name = str(r["Names"]).strip()
RowName(r) == Strip(IF IsNa(r.Names) THEN "nan" ELSE r.Names[1])

\* qty = float(r["Quantity"]) if not pd.isna(r["Quantity"]) else 0.0
RowQty(r) == IF IsNa(r.Quantity) THEN 0 ELSE r.Quantity[1]

\* issued_total = float(r["Q.Issued"]) if not pd.isna(r["Q.Issued"]) else 0.0
RowIssued(r) == IF IsNa(r.QIssued) THEN 0 ELSE r.QIssued[1]

\* remaining = float(r["Q.Remaining"]) if not pd.isna(r["Q.Remaining"])
\*             else qty - issued_total if qty else 0.0
RowRemaining(r) ==
    IF ~IsNa(r.QRemaining) THEN r.QRemaining[1]
    ELSE IF RowQty(r) # 0 THEN RowQty(r) - RowIssued(r) ELSE 0

\* INSERT INTO chemicals ... ON CONFLICT(chemical) DO UPDATE SET ...=excluded...
UpsertRow(table, name, row) ==
    [c \in DOMAIN table \cup {name} |-> IF c = name THEN row ELSE table[c]]

\* for _, r in df.iterrows(): ... upsert
RECURSIVE UpsertRows(_, _)
UpsertRows(table, rows) ==
    IF rows = <<>> THEN table
    ELSE UpsertRows(UpsertRow(table, RowName(Head(rows)),
                              ChemRow(RowQty(Head(rows)), RowRemaining(Head(rows)),
                                      RowIssued(Head(rows)))),
                    Tail(rows))

\* DELETE FROM chemicals
NoChemicals == [c \in {} |-> ChemRow(0, 0, 0)]

UploadArgs(columns, sheet) == [NoArgs EXCEPT !.columns = columns, !.sheet = sheet]

\* the whole of upload_master_from_excel; it reads no clock.  The ValueError
\* is raised before a connection is opened; DELETE and the upserts are one
\* transaction.
UploadMasterFromExcel(columns, sheet) ==
    LET args == UploadArgs(columns, sheet) IN
    IF MissingColumns(columns)
    THEN /\ last' = Result("upload_master_from_excel", args, FALSE,
                           "Excel must contain columns", 0)
         /\ UNCHANGED <<tables, proc, history>>
    ELSE /\ chemicals' = UpsertRows(NoChemicals, sheet)
         /\ last' = Result("upload_master_from_excel", args, TRUE, "ok", 0)
         /\ imported' = chemicals'
         /\ deducted' = [c \in Chems |-> 0]
         /\ restocked' = [c \in Chems |-> 0]
         /\ logMark' = Len(issued)
         /\ UNCHANGED <<requests, issued, notifications, proc>>

\* lab_dashboard, "Delete Master Chemical List": DELETE FROM chemicals; commit
DeleteMasterList ==
    /\ chemicals' = NoChemicals
    /\ last' = Result("delete_master_list", NoArgs, TRUE, "ok", 0)
    /\ imported' = NoChemicals
    /\ deducted' = [c \in Chems |-> 0]
    /\ restocked' = [c \in Chems |-> 0]
    /\ UNCHANGED <<requests, issued, notifications, proc, logMark>>

(* --------------------------- notifications ----------------------------- *)
\* slip: the UPDATE without its WHERE clause
MarkSeenAll(table, ids) == [n \in DOMAIN table |-> [table[n] EXCEPT !.seen = 1]]

NotifyArgs(recipient, message) ==
    [NoArgs EXCEPT !.recipient = recipient, !.message = message]

\* push_notification called on its own
Notify(recipient, message) ==
    /\ clock < MaxClock
    /\ clock' = clock + 1
    /\ notifications' = PushNotification(notifications, recipient, message, clock)
    /\ last' = Result("push_notification", NotifyArgs(recipient, message),
                      TRUE, "ok", 0)
    /\ UNCHANGED <<chemicals, requests, issued, proc, history>>

\* SELECT id, message, created_at FROM notifications WHERE recipient=? AND seen=0
\* ORDER BY created_at DESC: the ids of the rows returned (the order of the
\* rows is left out)
GetUnseenNotifications(user) ==
    {n \in DOMAIN notifications :
        notifications[n].recipient = user /\ notifications[n].seen = 0}

\* executemany("UPDATE notifications SET seen=1 WHERE id=?", [(i,) for i in ids])
MarkSeen(table, ids) ==
    [n \in DOMAIN table |->
        IF n \in ids THEN [table[n] EXCEPT !.seen = 1] ELSE table[n]]

\* mark_notifications_seen(ids): if not ids: return
MarkNotificationsSeen(ids) ==
    /\ notifications' = IF ids = {} THEN notifications
                        ELSE MarkSeen(notifications, ids)
    /\ last' = Result("mark_notifications_seen", [NoArgs EXCEPT !.ids = ids],
                      TRUE, "ok", 0)
    /\ UNCHANGED <<chemicals, requests, issued, proc, history>>

(* --------------------------- specifications ---------------------------- *)
\* the rows of a master list of MaxQty units per chemical, some of them
\* issued to date: remaining + issued = total, nothing negative
ImportRows == {ChemRow(MaxQty, r, MaxQty - r) : r \in 0..MaxQty}

MasterLists == UNION {[present -> ImportRows] : present \in SUBSET Chems}

Idle == [pc |-> "idle", op |-> None, args |-> NoArgs, now |-> 0,
         req_user |-> None, chem |-> None, amt |-> 0,
         remaining |-> 0, new_remaining |-> 0, new_issued |-> 0]

\* the tables after init_db and an import of a master list
Init ==
    /\ chemicals \in MasterLists
    /\ requests = <<>>
    /\ issued = <<>>
    /\ notifications = <<>>
    /\ clock = 0
    /\ last = Result("init", NoArgs, TRUE, "ok", 0)
    /\ proc = [p \in Procs |-> Idle]
    /\ imported = chemicals
    /\ deducted = [c \in Chems |-> 0]
    /\ restocked = [c \in Chems |-> 0]
    /\ logMark = 0

\* a request id a caller may name: any stored one, or the next, unused one
RequestIds == 1..(Len(requests) + 1)

DoCreateRequest ==
    \E u \in UserNames, c \in Chems, a \in 1..MaxAmount : CreateRequest(u, c, a)

DoSetStatus ==
    \E rid \in RequestIds, s \in Targets :
        \E actor \in ActorsFor(s) : SetStatus(rid, s, actor)

DoAdjustStock ==
    /\ \E c \in Chems, d \in (-MaxDelta)..MaxDelta : AdjustStock(c, d)
    /\ UNCHANGED clock

\* adjust_stock among timed calls: the clock moves on between any two calls
DoTimedAdjustStock ==
    /\ clock < MaxClock
    /\ clock' = clock + 1
    /\ \E c \in Chems, d \in (-MaxDelta)..MaxDelta : AdjustStock(c, d)

\* the request lifecycle: requests are created, reviewed and issued
Next == DoCreateRequest \/ DoSetStatus

Spec == Init /\ [][Next]_vars

\* the stock ledger alone: any sequence of adjust_stock calls
NextStock == DoAdjustStock

SpecStock == Init /\ [][NextStock]_vars

\* lifecycle and ledger operations, one call at a time
NextAll == DoCreateRequest \/ DoSetStatus \/ DoTimedAdjustStock

SpecAll == Init /\ [][NextAll]_vars

\* two sessions at once.  The tables are those after u1 and u2 each asked for
\* HCl (create_request accepted both) and sup approved both requests.
InitConc ==
    \E list \in MasterLists, a1 \in 1..MaxAmount, a2 \in 1..MaxAmount :
        /\ "HCl" \in DOMAIN list
        /\ ~ExceedsStock(a1, list["HCl"].remaining)
        /\ ~ExceedsStock(a2, list["HCl"].remaining)
        /\ chemicals = list
        /\ requests = << ReviewedRequest(NewRequest("u1", "HCl", a1, 0),
                                         "Approved", "sup", 2),
                         ReviewedRequest(NewRequest("u2", "HCl", a2, 1),
                                         "Approved", "sup", 3) >>
        /\ issued = <<>>
        /\ notifications =
              ApprovedNotices(ApprovedNotices(<<>>, 1, "u1", "sup", 2),
                              2, "u2", "sup", 3)
        /\ clock = 4
        /\ last = Result("update_request_status",
                         StatusArgs(2, "Approved", "sup", None), TRUE, "Approved", 0)
        /\ proc = [p \in Procs |-> Idle]
        /\ imported = list
        /\ deducted = [c \in Chems |-> 0]
        /\ restocked = [c \in Chems |-> 0]
        /\ logMark = 0

SessionLabIssue ==
    \E p \in Procs, rid \in DOMAIN requests, user \in LabStaff :
        LabIssueStart(p, rid, user)

SessionReview ==
    \E p \in Procs, rid \in DOMAIN requests, s \in {"Approved", "Rejected"},
       user \in Supervisors : ReviewStart(p, rid, s, user)

SessionAdjust ==
    \E p \in Procs, c \in Chems, d \in (-MaxDelta)..(-1) : AdjStart(p, c, d)

SessionStep ==
    \E p \in Procs :
        \/ UrsSelect(p)
        \/ UrsReview(p)
        \/ UrsStock(p)
        \/ UrsIssue(p)
        \/ UrsNotifyUser(p)
        \/ UrsNotifyLab(p)
        \/ AdjUpdate(p)

NextConc == SessionLabIssue \/ SessionReview \/ SessionAdjust \/ SessionStep

SpecConc == InitConc /\ [][NextConc]_vars

(* ------------------- specifications with the master list --------------- *)
\* the cells of the sheets: a chemical's name, once with blanks around it;
\* quantities with each of the three numeric cells empty in turn
SheetNames == {"HCl", " HCl ", "NaOH"}

SheetQuantities ==
    { [Quantity |-> <<MaxQty>>, QIssued |-> <<1>>, QRemaining |-> NaN],
      [Quantity |-> NaN, QIssued |-> <<1>>, QRemaining |-> NaN],
      [Quantity |-> <<MaxQty>>, QIssued |-> NaN, QRemaining |-> <<1>>] }

SheetRows ==
    { [Names |-> <<n>>, Quantity |-> q.Quantity, QIssued |-> q.QIssued,
       QRemaining |-> q.QRemaining] : n \in SheetNames, q \in SheetQuantities }

Sheets == UNION {[1..k -> SheetRows] : k \in 0..MaxRows}

ShortSheets == UNION {[1..k -> SheetRows] : k \in 0..1}

\* the headers of a sheet: all seven, all seven with blanks around one, or
\* one of the seven left out
PaddedHeaders == (Required \ {"Names"}) \cup {" Names "}

HeaderSets == {Required, PaddedHeaders} \cup {Required \ {col} : col \in Required}

DoUpload ==
    /\ \/ \E sheet \in Sheets : UploadMasterFromExcel(Required, sheet)
       \/ \E columns \in HeaderSets, sheet \in ShortSheets :
              UploadMasterFromExcel(columns, sheet)
    /\ UNCHANGED clock

DoDelete == DeleteMasterList /\ UNCHANGED clock

\* the master list alone: uploads and deletions in any order
NextImport == DoUpload \/ DoDelete

SpecImport == Init /\ [][NextImport]_vars

\* upload and deletion among timed calls
DoTimedUpload ==
    /\ clock < MaxClock
    /\ clock' = clock + 1
    /\ \E sheet \in ShortSheets : UploadMasterFromExcel(Required, sheet)

DoTimedDelete ==
    /\ clock < MaxClock
    /\ clock' = clock + 1
    /\ DeleteMasterList

\* requests and master lists, one call at a time, without adjust_stock
NextLedger == DoCreateRequest \/ DoSetStatus \/ DoTimedUpload \/ DoTimedDelete

SpecLedger == Init /\ [][NextLedger]_vars

Recipients == UserNames \cup {LabChannel}

DoNotify == \E r \in Recipients : Notify(r, Message("note", 0, None))

\* the ids a caller may pass: stored ones and the next, unused one
NoticeIds == 1..(Len(notifications) + 1)

DoTimedMarkSeen ==
    /\ clock < MaxClock
    /\ clock' = clock + 1
    /\ \E ids \in SUBSET NoticeIds :
          Cardinality(ids) <= MaxIds /\ MarkNotificationsSeen(ids)

\* every operation on the tables, one call at a time
NextFull ==
    \/ DoCreateRequest
    \/ DoSetStatus
    \/ DoTimedAdjustStock
    \/ DoTimedUpload
    \/ DoTimedDelete
    \/ DoNotify
    \/ DoTimedMarkSeen

\* the tables as init_db creates them: no row in any of them
InitEmpty ==
    /\ chemicals = NoChemicals
    /\ requests = <<>>
    /\ issued = <<>>
    /\ notifications = <<>>
    /\ clock = 0
    /\ last = Result("init", NoArgs, TRUE, "ok", 0)
    /\ proc = [p \in Procs |-> Idle]
    /\ imported = NoChemicals
    /\ deducted = [c \in Chems |-> 0]
    /\ restocked = [c \in Chems |-> 0]
    /\ logMark = 0

SpecFull == InitEmpty /\ [][NextFull]_vars

(* ------------------------------- claims -------------------------------- *)
\* a step that is one whole timed call of `op`, described by last'
TimedCall(op) == last'.op = op /\ clock' # clock /\ proc' = proc

NoSessionRunning == \A p \in Procs : proc[p].pc \in {"idle", "done"}

HasNotice(kind, rid) ==
    \E n \in DOMAIN notifications :
        notifications[n].message.kind = kind /\ notifications[n].message.rid = rid

\* C1: with create_request, update_request_status (any target, any id) and
\* adjust_stock (any delta) run one call at a time from a master list without
\* negative quantities, no chemical's remaining amount is ever negative.
RemainingNeverNegative ==
    \A c \in DOMAIN chemicals : chemicals[c].remaining >= 0

\* a chemical issued down to nothing, and adjust_stock then refused to take more
RemainingNeverNegativeWitness ==
    \E c \in DOMAIN chemicals :
        /\ chemicals[c].remaining = 0
        /\ \E k \in DOMAIN issued : issued[k].chemical = c
        /\ last.op = "adjust_stock" /\ ~last.ok
        /\ last.args.chemical = c /\ last.args.delta < 0

\* C2: two stock-deducting operations on one chemical run in parallel never
\* drive remaining below zero, and once both have returned, remaining is the
\* imported remaining minus the deductions that reported success.
ParallelDeductionsAtomic ==
    \A c \in DOMAIN chemicals :
        /\ chemicals[c].remaining >= 0
        /\ NoSessionRunning =>
              chemicals[c].remaining = imported[c].remaining - deducted[c]

\* C3: once a request is Rejected or Issued, no update_request_status call on
\* it succeeds and its status never changes.
TerminalStatusesFinal ==
    [][\A rid \in DOMAIN requests :
          requests[rid].status \in {"Rejected", "Issued"} =>
             /\ requests'[rid].status = requests[rid].status
             /\ ~(/\ TimedCall("update_request_status")
                  /\ last'.args.rid = rid
                  /\ last'.ok)]_vars

\* C4: a request becomes Issued only from Approved: a call with target Issued
\* succeeds only on an Approved request.
IssuedOnlyFromApproved ==
    [][\A rid \in DOMAIN requests :
          (requests'[rid].status = "Issued" /\ requests'[rid] # requests[rid])
             => requests[rid].status = "Approved"]_vars

\* C5: a call with target Approved or Rejected on a request that is not
\* Pending is refused and leaves the request and the notifications alone.
ReviewOnlyFromPending ==
    [][\A rid \in DOMAIN requests :
          (/\ TimedCall("update_request_status")
           /\ last'.args.rid = rid
           /\ last'.args.status \in {"Approved", "Rejected"}
           /\ requests[rid].status # "Pending")
             => /\ ~last'.ok
                /\ requests'[rid] = requests[rid]
                /\ notifications' = notifications]_vars

\* C6: issuing an Approved request for amount a of a listed chemical with
\* remaining r >= a succeeds; remaining becomes r - a, issued grows by a, total
\* stays, the request is Issued with the actor as lab_incharge, and exactly one
\* issuance record (requester, chemical, a, actor) is appended.
IssueApprovedDeducts ==
    [][\A rid \in DOMAIN requests :
          LET req == requests[rid]
              c == req.chemical
              a == req.amount
              actor == last'.args.lab_incharge
          IN
          (/\ TimedCall("update_request_status")
           /\ last'.args.rid = rid
           /\ last'.args.status = "Issued"
           /\ req.status = "Approved"
           /\ c \in DOMAIN chemicals
           /\ chemicals[c].remaining >= a)
             => /\ last'.ok
                /\ chemicals'[c].remaining = chemicals[c].remaining - a
                /\ chemicals'[c].issued = chemicals[c].issued + a
                /\ chemicals'[c].total = chemicals[c].total
                /\ requests'[rid].status = "Issued"
                /\ requests'[rid].lab_incharge = actor
                /\ Len(issued') = Len(issued) + 1
                /\ SubSeq(issued', 1, Len(issued)) = issued
                /\ issued'[Len(issued')].username = req.username
                /\ issued'[Len(issued')].chemical = c
                /\ issued'[Len(issued')].amount = a
                /\ issued'[Len(issued')].issued_by = actor]_vars

\* an approved request was issued and took the last of the stock (r = a)
IssueApprovedDeductsWitness ==
    /\ last.op = "update_request_status" /\ last.ok
    /\ last.args.status = "Issued"
    /\ last.args.rid \in DOMAIN requests
    /\ HasNotice("APPROVED", last.args.rid)
    /\ ~HasNotice("REJECTED", last.args.rid)
    /\ Len(issued) = 1
    /\ requests[last.args.rid].chemical \in DOMAIN chemicals
    /\ chemicals[requests[last.args.rid].chemical].remaining = 0

\* C7: a call with target Issued fails with "not found" when the chemical is
\* not listed and with "insufficient stock" when the amount exceeds remaining;
\* either way requests, chemicals, issuance log and notifications stay as
\* they were.
IssueFailuresChangeNothing ==
    [][\A rid \in DOMAIN requests :
          LET c == requests[rid].chemical
              a == requests[rid].amount
          IN
          (/\ TimedCall("update_request_status")
           /\ last'.args.rid = rid
           /\ last'.args.status = "Issued")
             => /\ c \notin DOMAIN chemicals =>
                      /\ ~last'.ok /\ last'.msg = "Chemical not found"
                      /\ UNCHANGED tables
                /\ (c \in DOMAIN chemicals /\ a > chemicals[c].remaining) =>
                      /\ ~last'.ok /\ last'.msg = "Insufficient stock"
                      /\ UNCHANGED tables]_vars

\* an issue was refused for lack of stock on a chemical that is listed
IssueFailuresChangeNothingWitness ==
    /\ last.op = "update_request_status" /\ ~last.ok
    /\ last.args.status = "Issued"
    /\ last.msg = "Insufficient stock"
    /\ last.args.rid \in DOMAIN requests
    /\ requests[last.args.rid].chemical \in DOMAIN chemicals
    /\ requests[last.args.rid].amount
          > chemicals[requests[last.args.rid].chemical].remaining

\* C8: create_request fails and inserts nothing when the chemical is listed
\* and amount > remaining; otherwise (listed with amount <= remaining, or not
\* listed at all) it appends exactly one Pending request under a fresh id,
\* with no supervisor and no lab_incharge.
CreateRequestContract ==
    [][TimedCall("create_request") =>
          LET c == last'.args.chemical
              a == last'.args.amount
              id == Len(requests) + 1
          IN
          IF c \in DOMAIN chemicals /\ a > chemicals[c].remaining
          THEN /\ ~last'.ok
               /\ last'.msg = "Exceeds remaining stock"
               /\ requests' = requests
          ELSE /\ last'.ok
               /\ Len(requests') = id
               /\ SubSeq(requests', 1, Len(requests)) = requests
               /\ requests'[id].status = "Pending"
               /\ requests'[id].supervisor = None
               /\ requests'[id].lab_incharge = None
               /\ requests'[id].username = last'.args.username
               /\ requests'[id].chemical = c
               /\ requests'[id].amount = a]_vars

\* a request for an unlisted chemical is stored, and one for more than the
\* remaining stock of a listed chemical has just been refused
CreateRequestContractWitness ==
    /\ last.op = "create_request" /\ ~last.ok
    /\ last.args.chemical \in DOMAIN chemicals
    /\ \E rid \in DOMAIN requests : requests[rid].chemical \notin DOMAIN chemicals

\* C9 as stated: under any sequence of adjust_stock calls after a balanced
\* import, remaining >= 0 and remaining + issued = the imported total.
StockBalanced ==
    \A c \in DOMAIN chemicals :
        /\ chemicals[c].remaining >= 0
        /\ chemicals[c].remaining + chemicals[c].issued = imported[c].total

\* C9 amended: remaining >= 0 and remaining + issued = the imported total plus
\* the positive deltas that adjust_stock accepted since the import.
StockBalancedUpToRestock ==
    \A c \in DOMAIN chemicals :
        /\ chemicals[c].remaining >= 0
        /\ chemicals[c].remaining + chemicals[c].issued
              = imported[c].total + restocked[c]

\* stock was both added and taken, and a further deduction was refused
StockBalancedUpToRestockWitness ==
    \E c \in DOMAIN chemicals :
        /\ restocked[c] > 0
        /\ deducted[c] > 0
        /\ last.op = "adjust_stock" /\ ~last.ok
        /\ last.args.chemical = c
        /\ last.msg = "Insufficient stock"

\* C10: adjust_stock(chemical, delta) fails with "not found" for an unlisted
\* chemical and with "insufficient stock" when r + delta < 0, changing no row;
\* otherwise it returns r + delta, stores remaining = r + delta and
\* issued = i + |delta| for delta < 0, issued = i for delta >= 0, and leaves
\* every other row alone.
AdjustStockContract ==
    [][(last'.op = "adjust_stock" /\ proc' = proc) =>
          LET c == last'.args.chemical
              d == last'.args.delta
          IN
          IF c \notin DOMAIN chemicals
          THEN /\ ~last'.ok /\ last'.msg = "Chemical not found"
               /\ chemicals' = chemicals
          ELSE IF chemicals[c].remaining + d < 0
          THEN /\ ~last'.ok /\ last'.msg = "Insufficient stock"
               /\ chemicals' = chemicals
          ELSE /\ last'.ok
               /\ last'.val = chemicals[c].remaining + d
               /\ DOMAIN chemicals' = DOMAIN chemicals
               /\ chemicals'[c].remaining = chemicals[c].remaining + d
               /\ chemicals'[c].issued =
                     IF d < 0 THEN chemicals[c].issued + (0 - d)
                     ELSE chemicals[c].issued
               /\ chemicals'[c].total = chemicals[c].total
               /\ \A o \in DOMAIN chemicals \ {c} :
                     chemicals'[o] = chemicals[o]]_vars

\* a deduction took exactly what was left, with another chemical listed
AdjustStockContractWitness ==
    /\ last.op = "adjust_stock" /\ last.ok
    /\ last.args.delta < 0
    /\ last.val = 0
    /\ last.args.chemical \in DOMAIN chemicals
    /\ chemicals[last.args.chemical].remaining = 0
    /\ DOMAIN chemicals = Chems

\* C11: a successful update_request_status appends exactly the notices of its
\* target, each unseen: two for Approved (the requester, then the lab-staff
\* channel), one for Rejected and one for Issued (the requester); a failed
\* call appends none, and create_request appends none.
StatusNoticesExact ==
    [][/\ TimedCall("create_request") => notifications' = notifications
       /\ TimedCall("update_request_status") =>
             LET rid == last'.args.rid
                 target == last'.args.status
                 n == Len(notifications)
                 added == (n + 1)..Len(notifications')
                 To(r) == {k \in added : notifications'[k].recipient = r}
             IN
             IF ~last'.ok
             THEN notifications' = notifications
             ELSE /\ rid \in DOMAIN requests
                  /\ SubSeq(notifications', 1, n) = notifications
                  /\ \A k \in added : notifications'[k].seen = 0
                  /\ IF target = "Approved"
                     THEN /\ Cardinality(added) = 2
                          /\ Cardinality(To(requests[rid].username)) = 1
                          /\ Cardinality(To(LabChannel)) = 1
                     ELSE /\ target \in {"Rejected", "Issued"}
                          /\ Cardinality(added) = 1
                          /\ To(requests[rid].username) = added]_vars

\* a request was approved (two notices) and then issued (a third)
StatusNoticesExactWitness ==
    /\ last.op = "update_request_status" /\ last.ok
    /\ last.args.status = "Issued"
    /\ HasNotice("approved", last.args.rid)
    /\ HasNotice("ISSUED", last.args.rid)
    /\ Len(notifications) = 3

\* C12: update_request_status on an id that is not stored fails with "not
\* found" for every target, and on a stored request with a target other than
\* Approved, Rejected or Issued fails with "unsupported"; in both cases the
\* four tables stay as they were.
UnknownIdOrTargetRefused ==
    [][TimedCall("update_request_status") =>
          LET rid == last'.args.rid
              target == last'.args.status
          IN
          /\ rid \notin DOMAIN requests =>
                /\ ~last'.ok /\ last'.msg = "Request not found"
                /\ UNCHANGED tables
          /\ (rid \in DOMAIN requests
               /\ target \notin {"Approved", "Rejected", "Issued"}) =>
                /\ ~last'.ok /\ last'.msg = "Unsupported status"
                /\ UNCHANGED tables]_vars

\* target Pending was refused on a stored request that had been approved, with
\* stock enough for it on the ledger
UnknownIdOrTargetRefusedWitness ==
    /\ last.op = "update_request_status" /\ ~last.ok
    /\ last.msg = "Unsupported status"
    /\ last.args.status = "Pending"
    /\ last.args.rid \in DOMAIN requests
    /\ requests[last.args.rid].status = "Approved"
    /\ requests[last.args.rid].chemical \in DOMAIN chemicals
    /\ requests[last.args.rid].amount
          <= chemicals[requests[last.args.rid].chemical].remaining

\* C13: create_request and update_request_status with target Approved or
\* Rejected leave every chemicals row and the issuance log as they were,
\* whether they succeed or fail; the chemicals table changes only in a
\* successful issue, in adjust_stock or in an upload or deletion of the master
\* list, and the issuance log only in a successful issue.
StockTouchedOnlyByLedgerCalls ==
    [][/\ (\/ TimedCall("create_request")
           \/ /\ TimedCall("update_request_status")
              /\ last'.args.status \in {"Approved", "Rejected"})
             => chemicals' = chemicals /\ issued' = issued
       /\ chemicals' # chemicals =>
             \/ /\ last'.op = "update_request_status"
                /\ last'.ok /\ last'.args.status = "Issued"
             \/ last'.op = "adjust_stock" /\ last'.ok
             \/ last'.op \in {"upload_master_from_excel", "delete_master_list"}
       /\ issued' # issued =>
             /\ last'.op = "update_request_status"
             /\ last'.ok /\ last'.args.status = "Issued"]_vars

\* a request for a listed chemical, within its stock, was approved and the
\* chemical's row is still as the upload stored it
StockTouchedOnlyByLedgerCallsWitness ==
    /\ last.op = "update_request_status" /\ last.ok
    /\ last.args.status = "Approved"
    /\ last.args.rid \in DOMAIN requests
    /\ requests[last.args.rid].chemical \in DOMAIN chemicals
    /\ requests[last.args.rid].amount
          <= chemicals[requests[last.args.rid].chemical].remaining
    /\ chemicals = imported
    /\ issued = <<>>

\* C14: an upload whose headers, trimmed, lack one of the seven required
\* columns fails with the schema error and leaves chemicals, requests, issuance
\* log and notifications as they were.
SchemaErrorChangesNothing ==
    [][(/\ last'.op = "upload_master_from_excel"
        /\ proc' = proc
        /\ \E col \in Required :
              \A h \in last'.args.columns : Strip(h) # col)
          => /\ ~last'.ok
             /\ last'.msg = "Excel must contain columns"
             /\ UNCHANGED tables]_vars

\* a sheet with six of the seven columns was refused while the ledger held rows
SchemaErrorChangesNothingWitness ==
    /\ last.op = "upload_master_from_excel" /\ ~last.ok
    /\ Cardinality(last.args.columns) = 6
    /\ last.args.sheet # <<>>
    /\ DOMAIN chemicals = Chems

\* the quantities the import reads from a sheet row: an empty Quantity or
\* Q.Issued counts 0, an empty Q.Remaining is total - issued (0 without a total)
ReadQuantities(r) ==
    LET total == IF r.Quantity = <<>> THEN 0 ELSE r.Quantity[1]
        given == IF r.QIssued = <<>> THEN 0 ELSE r.QIssued[1]
    IN
    [total |-> total,
     issued |-> given,
     remaining |-> IF r.QRemaining # <<>> THEN r.QRemaining[1]
                   ELSE IF total = 0 THEN 0 ELSE total - given]

\* C15: after a successful upload the chemicals table holds exactly one row
\* for each distinct (trimmed) name on the sheet and no other row, and each
\* row holds the quantities read from the last sheet row of that name,
\* whatever the table held before.
MasterListReplaced ==
    [][(last'.op = "upload_master_from_excel" /\ last'.ok /\ proc' = proc) =>
          LET rows == last'.args.sheet
              NameAt(k) == Strip(rows[k].Names[1])
              IsLast(k) == \A j \in DOMAIN rows : NameAt(j) = NameAt(k) => j <= k
          IN
          /\ DOMAIN chemicals' = {NameAt(k) : k \in DOMAIN rows}
          /\ \A k \in DOMAIN rows :
                IsLast(k) => chemicals'[NameAt(k)] = ReadQuantities(rows[k])]_vars

\* a sheet naming HCl twice, once with blanks, with different quantities, was
\* uploaded: one HCl row, nothing for NaOH
MasterListReplacedWitness ==
    /\ last.op = "upload_master_from_excel" /\ last.ok
    /\ Len(last.args.sheet) = 2
    /\ last.args.sheet[1].Names = <<"HCl">>
    /\ last.args.sheet[2].Names = <<" HCl ">>
    /\ ReadQuantities(last.args.sheet[1]) # ReadQuantities(last.args.sheet[2])
    /\ DOMAIN chemicals = {"HCl"}

\* C16: mark_notifications_seen with no ids changes no notification; after
\* mark_notifications_seen(ids) the unseen notifications of every recipient are
\* those returned before without the ones in ids, all addressed to that
\* recipient; a notification that is seen stays stored and seen in every step.
SeenIsFinal ==
    [][/\ (last'.op = "mark_notifications_seen" /\ clock' # clock) =>
             /\ last'.args.ids = {} => notifications' = notifications
             /\ \A r \in Recipients :
                   /\ GetUnseenNotifications(r)'
                         = GetUnseenNotifications(r) \ last'.args.ids
                   /\ \A n \in GetUnseenNotifications(r)' :
                         notifications'[n].recipient = r
       /\ \A n \in DOMAIN notifications :
             notifications[n].seen = 1 =>
                /\ n \in DOMAIN notifications'
                /\ notifications'[n].seen = 1
                /\ \A r \in Recipients : n \notin GetUnseenNotifications(r)']_vars

\* one of the two notices of an approval was marked seen, the other is still
\* returned to its recipient
SeenIsFinalWitness ==
    /\ last.op = "mark_notifications_seen"
    /\ \E n \in last.args.ids, m \in DOMAIN notifications :
          /\ n \in DOMAIN notifications
          /\ notifications[n].seen = 1
          /\ notifications[m].recipient # notifications[n].recipient
          /\ m \in GetUnseenNotifications(notifications[m].recipient)

\* C17: a stored request is never removed and keeps its requester, chemical
\* and amount in every step; a request changes only in a successful
\* update_request_status on its id; an upload or deletion of the master list
\* leaves requests, issuance log and notifications as they were.
RequestsKeepIdentity ==
    [][/\ Len(requests') >= Len(requests)
       /\ \A rid \in DOMAIN requests :
             /\ requests'[rid].username = requests[rid].username
             /\ requests'[rid].chemical = requests[rid].chemical
             /\ requests'[rid].amount = requests[rid].amount
             /\ requests'[rid] # requests[rid] =>
                   /\ last'.op = "update_request_status"
                   /\ last'.ok /\ last'.args.rid = rid
       /\ last'.op \in {"upload_master_from_excel", "delete_master_list"} =>
             /\ requests' = requests
             /\ issued' = issued
             /\ notifications' = notifications]_vars

\* the master list was deleted with an approved request and its two notices
\* stored
RequestsKeepIdentityWitness ==
    /\ last.op = "delete_master_list"
    /\ Len(requests) = 1
    /\ requests[1].status = "Approved"
    /\ Len(notifications) = 2

\* C18: over any interleaving of the dashboards' actions a request is issued
\* at most once: at most one issuance record is appended for it and its
\* requester is told of at most one issue.  (The two requests of SpecConc have
\* different requesters, so a record's username names its request.)
IssuedAtMostOnce ==
    \A rid \in DOMAIN requests :
        /\ Cardinality({k \in DOMAIN issued :
                           issued[k].username = requests[rid].username}) <= 1
        /\ Cardinality({n \in DOMAIN notifications :
                           /\ notifications[n].message.kind = "ISSUED"
                           /\ notifications[n].message.rid = rid}) <= 1

\* the amounts of the issuance records for chemical c from position k on
RECURSIVE IssuedSince(_, _)
IssuedSince(c, k) ==
    IF k > Len(issued) THEN 0
    ELSE (IF issued[k].chemical = c THEN issued[k].amount ELSE 0)
         + IssuedSince(c, k + 1)

\* C19: with create_request, update_request_status and uploads run one call
\* at a time, for every chemical on the ledger the amounts of the issuance
\* records appended since the last upload add up to issued minus the issued
\* value that upload stored, and to the remaining value it stored minus the
\* current remaining.
LedgerInStepWithLog ==
    \A c \in DOMAIN chemicals :
        /\ IssuedSince(c, logMark + 1) = chemicals[c].issued - imported[c].issued
        /\ IssuedSince(c, logMark + 1)
              = imported[c].remaining - chemicals[c].remaining

\* a chemical was issued and the master list then uploaded again with that
\* chemical on it: the record of the issue lies before the upload
LedgerInStepWithLogWitness ==
    /\ last.op = "upload_master_from_excel" /\ last.ok
    /\ logMark = 1
    /\ Len(issued) = 1
    /\ issued[1].chemical \in DOMAIN chemicals

====
